---- MODULE Spec2Model ----
(***************************************************************************)
(* Butterfly Viewer: the volumetric frame store (VolumetricImageHandler,   *)
(* aux_volumetric.py) and the slice / display-range / pan synchronisation  *)
(* of the viewer windows (SplitViewMdiChild and MultiViewMainWindow,       *)
(* butterfly_viewer.py).                                                   *)
(*                                                                         *)
(* The program is single-threaded: every user action runs its handler to   *)
(* completion, nested signal deliveries and direct calls included.  A      *)
(* handler is therefore one action, and the methods it calls are operators *)
(* that take the program state and return the state they leave.            *)
(***************************************************************************)
EXTENDS Integers, Sequences, FiniteSets, TLC

\* ------------------------------------------------------------------ bounds

\* Largest raw sample value / range bound drawn as an input.
MaxVal == 2
FaultBudget == 1
\* Half check intervals the clock of the update checker is advanced by.
ClockSteps == 6

\* ------------------------------------------------------- program constants

\* aux_volumetric.py:258  "if len(self._cached_slices) > 10"
CacheLimit == 10
\* aux_volumetric.py:57   default data_range (0, 255)
DefaultMin == 0
DefaultMax == 255
\* "min_value=None": the argument was not given.
None == -1

\* Frames of the stack opened in the store-level specification: the smallest
\* stack whose frames overfill the cache and force an eviction.
StoreSlices == CacheLimit + 2

Vals == 0..MaxVal
OptVals == Vals \cup {None}

\* A raster that was never produced (get_slice_pixmap returned None).
NoPixmap == <<>>

Min2(a, b) == IF a < b THEN a ELSE b

\* ------------------------------------------------- VolumetricImageHandler

\* The stack on disk: its frame count and the extreme raw samples over all
\* frames.
File(n, lo, hi) == [slices |-> n, gmin |-> lo, gmax |-> hi]

\* A detection that overwrites the window whether it is forced or not.
analyze_file_unforced(h) ==
    LET ranged == h.file.gmin < h.file.gmax
        orig   == IF ranged THEN <<h.file.gmin, h.file.gmax>>
                            ELSE h.original_data_range
    IN [h EXCEPT !.total_slices = h.file.slices,
                 !.original_data_range = orig,
                 !.data_range = IF ranged THEN orig ELSE h.data_range,
                 !.current_slice = h.file.slices \div 2]

\* _analyze_file, tifffile branch: frame count, global min/max, centre slice.
analyze_file(h) ==
    LET ranged == h.file.gmin < h.file.gmax
        orig   == IF ranged THEN <<h.file.gmin, h.file.gmax>>
                            ELSE h.original_data_range
    IN [h EXCEPT !.total_slices = h.file.slices,
                 !.original_data_range = orig,
                 !.data_range = IF ranged /\ ~h.use_forced_range
                                THEN orig ELSE h.data_range,
                 !.current_slice = h.file.slices \div 2]

\* __init__: the defaults, then _analyze_file.
new_handler(file) ==
    analyze_file([file |-> file,
                  total_slices |-> 0,
                  current_slice |-> 0,
                  data_range |-> <<DefaultMin, DefaultMax>>,
                  original_data_range |-> <<DefaultMin, DefaultMax>>,
                  use_forced_range |-> FALSE,
                  cached_slices |-> <<>>])

\* _normalize_image + QPixmap: the raster of frame i under the window in
\* force when it is decoded.
normalize_image(h, i) == <<i, h.data_range[1], h.data_range[2]>>

\* The position of key i in the insertion-ordered cache, 0 when absent.
CachePos(cache, i) ==
    IF \E k \in 1..Len(cache) : cache[k][1] = i
    THEN CHOOSE k \in 1..Len(cache) : cache[k][1] = i
    ELSE 0

CacheKeys(cache) == {cache[k][1] : k \in 1..Len(cache)}

\* A cache that drops the least recently used entry instead: a hit moves the
\* entry to the back.
cache_hit_lru(cache, i) ==
    LET p == CachePos(cache, i)
    IN SubSeq(cache, 1, p - 1) \o SubSeq(cache, p + 1, Len(cache))
       \o <<cache[p]>>

\* get_slice_pixmap, lines 228-230: a hit returns the entry and leaves the
\* dict as it is.
cache_hit(cache, i) == cache

\* A cache that evicts as soon as the limit is reached.
cache_store_strict(cache, i, pixmap) ==
    (IF Len(cache) >= CacheLimit THEN Tail(cache) ELSE cache)
    \o <<(<<i, pixmap>>)>>

\* A cache that keeps the raster as rendered with the default window, not the
\* one that was returned.
cache_store_unwindowed(cache, i, pixmap) ==
    (IF Len(cache) > CacheLimit THEN Tail(cache) ELSE cache)
    \o <<(<<i, <<pixmap[1], DefaultMin, DefaultMax>>>>)>>

\* get_slice_pixmap, lines 257-262: evict next(iter(dict)) when the dict
\* holds more than the limit, then insert.
cache_store(cache, i, pixmap) ==
    (IF Len(cache) > CacheLimit THEN Tail(cache) ELSE cache)
    \o <<(<<i, pixmap>>)>>

\* A decode that goes back to the detected window before it renders.
get_slice_pixmap_detected(h, slice_index, fails) ==
    LET i == IF slice_index = None THEN h.current_slice ELSE slice_index
        p == CachePos(h.cached_slices, i)
        d == [h EXCEPT !.use_forced_range = FALSE,
                       !.data_range = h.original_data_range]
    IN IF i < 0 \/ i >= h.total_slices
       THEN [h |-> h, pixmap |-> NoPixmap]
       ELSE IF p # 0
       THEN [h |-> h, pixmap |-> h.cached_slices[p][2]]
       ELSE IF fails
       THEN [h |-> h, pixmap |-> NoPixmap]
       ELSE [h |-> [d EXCEPT !.cached_slices =
                               cache_store(@, i, normalize_image(d, i))],
             pixmap |-> normalize_image(d, i)]

\* A decode that throws its cache away when it cannot return a frame.
get_slice_pixmap_drop(h, slice_index, fails) ==
    LET i == IF slice_index = None THEN h.current_slice ELSE slice_index
        p == CachePos(h.cached_slices, i)
    IN IF i < 0 \/ i >= h.total_slices \/ (p = 0 /\ fails)
       THEN [h |-> [h EXCEPT !.cached_slices = <<>>], pixmap |-> NoPixmap]
       ELSE IF p # 0
       THEN [h |-> h, pixmap |-> h.cached_slices[p][2]]
       ELSE [h |-> [h EXCEPT !.cached_slices =
                               cache_store(@, i, normalize_image(h, i))],
             pixmap |-> normalize_image(h, i)]

\* get_slice_pixmap(slice_index); fails = the decoder raised inside the try.
\* Returns the handler and the raster (NoPixmap for None).
get_slice_pixmap(h, slice_index, fails) ==
    LET i == IF slice_index = None THEN h.current_slice ELSE slice_index
        p == CachePos(h.cached_slices, i)
    IN IF i < 0 \/ i >= h.total_slices
       THEN [h |-> h, pixmap |-> NoPixmap]
       ELSE IF p # 0
       THEN [h |-> [h EXCEPT !.cached_slices = cache_hit(@, i)],
             pixmap |-> h.cached_slices[p][2]]
       ELSE IF fails
       THEN [h |-> h, pixmap |-> NoPixmap]
       ELSE LET pm == normalize_image(h, i)
            IN [h |-> [h EXCEPT !.cached_slices = cache_store(@, i, pm)],
                pixmap |-> pm]

\* A raw read that hands out the windowed raster of the frame.
get_slice_array_windowed(h, slice_index) ==
    get_slice_pixmap(h, slice_index, FALSE).pixmap

\* get_slice_array: the raw samples of frame i, never cached.
get_slice_array(h, slice_index) ==
    LET i == IF slice_index = None THEN h.current_slice ELSE slice_index
    IN IF i < 0 \/ i >= h.total_slices THEN NoPixmap ELSE <<i>>

\* set_current_slice
set_current_slice(h, slice_index) ==
    IF 0 <= slice_index /\ slice_index < h.total_slices
    THEN [h EXCEPT !.current_slice = slice_index]
    ELSE h

\* A validity test that lets an empty window through.
range_valid_weak(lo, hi) == lo <= hi

\* update_display_range, line 352.
range_valid(lo, hi) == lo < hi

\* An update that forgets to drop the cache.
update_display_range_keep(h, min_value, max_value, force) ==
    LET forcing == min_value # None /\ max_value # None /\ force
        h1 == IF forcing THEN [h EXCEPT !.use_forced_range = TRUE] ELSE h
        lo == IF min_value # None THEN min_value ELSE h.data_range[1]
        hi == IF max_value # None THEN max_value ELSE h.data_range[2]
    IN IF lo < hi
       THEN [h |-> [h1 EXCEPT !.data_range = <<lo, hi>>], ok |-> TRUE]
       ELSE [h |-> h1, ok |-> FALSE]

\* update_display_range(min_value, max_value, force).
\* Returns the handler and the boolean result.
update_display_range(h, min_value, max_value, force) ==
    LET forcing == min_value # None /\ max_value # None /\ force
        h1 == IF forcing THEN [h EXCEPT !.use_forced_range = TRUE] ELSE h
        lo == IF min_value # None THEN min_value ELSE h.data_range[1]
        hi == IF max_value # None THEN max_value ELSE h.data_range[2]
    IN IF range_valid(lo, hi)
       THEN [h |-> [h1 EXCEPT !.data_range = <<lo, hi>>,
                              !.cached_slices = <<>>],
             ok |-> TRUE]
       ELSE [h |-> h1, ok |-> FALSE]

\* A reset that leaves the forced flag as it is.
reset_display_range_keep_flag(h) ==
    [h EXCEPT !.data_range = h.original_data_range,
              !.cached_slices = <<>>]

\* reset_display_range
reset_display_range(h) ==
    [h EXCEPT !.use_forced_range = FALSE,
              !.data_range = h.original_data_range,
              !.cached_slices = <<>>]

\* get_info
get_info(h) ==
    [total_slices |-> h.total_slices,
     current_slice |-> h.current_slice,
     data_range |-> h.data_range]

\* ------------------------------------------- samples and rasters, by value

\* The PIL modes of the frames of a supported stack: 8-bit unsigned, 16-bit
\* unsigned, 32-bit signed integer and 32-bit float samples.
Modes == {"L", "I;16", "I", "F"}

\* What astype(np.uint8) leaves in a byte when it is handed inf or nan: no
\* defined value.
Undefined == None - 1

\* Every raw sample of a stack.
Samples(frames) ==
    {frames[i][k] : i \in 1..Len(frames), k \in 1..Len(frames[1])}

\* np.min and np.max over the whole stack (_analyze_file, lines 83-84).
np_min(frames) == CHOOSE m \in Samples(frames) : \A x \in Samples(frames) : m <= x
np_max(frames) == CHOOSE m \in Samples(frames) : \A x \in Samples(frames) : m >= x

\* A stack on disk with its raw samples: frames[i + 1][k] is sample k of
\* frame i.  gmin and gmax are what the scan of _analyze_file finds.
Stack(mode, frames) ==
    [slices |-> Len(frames), gmin |-> np_min(frames), gmax |-> np_max(frames),
     mode |-> mode, frames |-> frames]

\* np.clip (line 207).
np_clip(x, lo, hi) == IF x < lo THEN lo ELSE IF x > hi THEN hi ELSE x

\* A rescaling that divides by the offset of the sample instead of the width
\* of the window.
rescale_by_sample(x, lo, hi) ==
    IF x - lo = 0 THEN Undefined ELSE ((hi - lo) * 255) \div (x - lo)

\* A rescaling that rounds to the nearest integer, halves upwards.
rescale_rounded(x, lo, hi) ==
    IF hi - lo = 0 THEN Undefined
    ELSE (2 * (x - lo) * 255 + (hi - lo)) \div (2 * (hi - lo))

\* Line 208: (x - min_val) / (max_val - min_val) * 255, then
\* astype(np.uint8), which drops the fraction.  For 0 <= x - lo <= hi - lo the
\* float64 result has the integer part of the exact quotient.
rescale(x, lo, hi) ==
    IF hi - lo = 0 THEN Undefined ELSE ((x - lo) * 255) \div (hi - lo)

\* A normalisation that treats 8-bit samples like every other kind.
normalize_value_all_kinds(mode, x, lo, hi) ==
    IF lo = hi THEN 0 ELSE rescale(np_clip(x, lo, hi), lo, hi)

\* _normalize_image for one sample: mode 'L' is returned as it is (lines
\* 190-191), a window min_val == max_val gives zeros (202-204), every other
\* sample is clipped and rescaled (207-208).
normalize_value(mode, x, lo, hi) ==
    IF mode = "L" THEN x
    ELSE IF lo = hi THEN 0
    ELSE rescale(np_clip(x, lo, hi), lo, hi)

\* The bytes of the raster pm = <<frame, min_val, max_val>> of a stack: the
\* frame normalised under the window it was decoded with.
Pixels(file, pm) ==
    [k \in 1..Len(file.frames[pm[1] + 1]) |->
        normalize_value(file.mode, file.frames[pm[1] + 1][k], pm[2], pm[3])]

\* The array get_slice_array returns for the result arr = <<frame>>.
RawSamples(file, arr) == file.frames[arr[1] + 1]

\* ------------------------------- SplitViewMdiChild / MultiViewMainWindow

\* The program state the handlers work on:
\*   h[v]   the VolumetricImageHandler of viewer v
\*   c[v]   the SplitViewMdiChild fields of viewer v
\*   w      the MultiViewMainWindow fields
\*   o      what the running user action has done so far (observation only)
\*   exc    an exception is propagating up the call stack
\*   f      the collaborators that fail during this user action:
\*          f.raise  viewers whose Qt item raises when a raster is set on it,
\*          f.decode viewers whose decoder raises inside get_slice_pixmap

Bump(fn, v) == [fn EXCEPT ![v] = @ + 1]

\* A clamp that forgets the upper end.
clamp_slice_low_only(slice_index, total) ==
    IF slice_index < 0 THEN 0 ELSE slice_index

\* load_slice, lines 525-529.
clamp_slice(slice_index, total) ==
    IF slice_index < 0 THEN 0
    ELSE IF slice_index >= total THEN total - 1
    ELSE slice_index

\* A fan-out that skips a sibling lacking the origin's slice.
slice_target_skip(from_slice, to_total, to_slice) ==
    IF from_slice < to_total THEN from_slice ELSE to_slice

\* synchSlice, lines 2819-2823: the index handed to a volumetric sibling.
slice_target(from_slice, to_total, to_slice) ==
    IF from_slice < to_total THEN from_slice ELSE to_total - 1

\* A fan-out that does not leave out the viewer the change came from.
slice_sync_target_any(c, fromViewer, k) ==
    c[k].open /\ c[k].sync_this_slice

\* A fan-out that ignores the siblings' slice toggles.
slice_sync_target_all(c, fromViewer, k) ==
    c[k].open /\ k # fromViewer

\* synchSlice, lines 2813-2815: the subwindows the change is handed to.
slice_sync_target(c, fromViewer, k) ==
    c[k].open /\ k # fromViewer /\ c[k].sync_this_slice

\* A viewer that forgets to clear its flag after the fan-out.
slice_flag_left_set == TRUE

\* load_slice, line 553: the value _handling_slice_sync is given after the
\* fan-out has returned.
slice_flag_after_fanout == FALSE

RECURSIVE load_slice(_, _, _)
RECURSIVE synchSlice(_, _)
RECURSIVE slice_fanout(_, _, _)

\* The slot connected to slice_changed in createMdiChild (line 1858): an
\* exception leaving a slot is reported by PyQt and does not reach the emitter.
emit_slice_changed(s, v) ==
    LET s1 == synchSlice(s, v)
    IN IF s1.exc
       THEN [s1 EXCEPT !.exc = FALSE, !.o.reported = @ + 1]
       ELSE s1

\* SplitViewMdiChild.load_slice
load_slice(s, v, slice_index) ==
    IF ~s.c[v].is_volumetric THEN s
    ELSE IF s.c[v].handling_slice_sync
    THEN [s EXCEPT !.o.blocked = Bump(@, v)]
    ELSE
    LET i  == clamp_slice(slice_index, s.c[v].total_slices)
        r  == get_slice_pixmap(s.h[v], i, v \in s.f.decode)
        s1 == [s EXCEPT !.h[v] = r.h,
                        !.o.calls = Bump(@, v),
                        !.o.nested = @ \/ (v = s.o.origin /\ s.o.depth > 0)]
    IN IF r.pixmap = NoPixmap THEN s1
       ELSE IF v \in s.f.raise THEN [s1 EXCEPT !.exc = TRUE]
       ELSE
       LET s2 == [s1 EXCEPT !.c[v].pixmap = r.pixmap,
                            !.c[v].current_slice = i,
                            !.o.applied = Bump(@, v)]
           s3 == emit_slice_changed(s2, v)
       IN IF ~s3.c[v].sync_this_slice THEN s3
          ELSE
          LET s4 == synchSlice(
                      [s3 EXCEPT !.c[v].handling_slice_sync = TRUE], v)
          IN IF s4.exc THEN s4
             ELSE [s4 EXCEPT !.c[v].handling_slice_sync =
                                 slice_flag_after_fanout]

\* synchSlice, lines 2833-2834: a black raster as wide and as high as the
\* raster current.
black_pixmap(current) == <<"black", current>>

\* A blanking that adds a black raster without removing the one before.
blank_sibling_stack(s, v) ==
    [s EXCEPT !.c[v].black_items = @ + 1,
              !.c[v].black_pixmap = black_pixmap(s.c[v].pixmap),
              !.o.blanked = Bump(@, v)]

\* synchSlice, lines 2824-2842: a sibling without volumetric data gets a
\* black raster of the size of its current one, added to its scene after
\* the black raster added before, if there is one, has been removed.
blank_sibling(s, v) ==
    [s EXCEPT !.c[v].black_items = (IF @ > 0 THEN @ - 1 ELSE @) + 1,
              !.c[v].black_pixmap = black_pixmap(s.c[v].pixmap),
              !.o.blanked = Bump(@, v)]

\* One iteration of the loop of synchSlice, for subwindow k.
slice_apply(s, fromViewer, k) ==
    IF ~slice_sync_target(s.c, fromViewer, k) THEN s
    ELSE IF s.c[k].is_volumetric
    THEN load_slice(s, k, slice_target(s.c[fromViewer].current_slice,
                                       s.c[k].total_slices,
                                       s.c[k].current_slice))
    ELSE blank_sibling(s, k)

\* The loop of synchSlice over subWindowList(), left when an exception is
\* propagating.
slice_fanout(s, fromViewer, k) ==
    IF k > Len(s.c) \/ s.exc THEN s
    ELSE slice_fanout(slice_apply(s, fromViewer, k), fromViewer, k + 1)

\* MultiViewMainWindow.synchSlice
synchSlice(s, fromViewer) ==
    IF ~s.c[fromViewer].is_volumetric THEN s
    ELSE IF s.w.handling_slice_sync THEN s
    ELSE
    LET d  == s.o.depth + 1
        s1 == [s EXCEPT !.w.handling_slice_sync = TRUE,
                        !.o.fanout = Bump(@, fromViewer),
                        !.o.depth = d,
                        !.o.maxdepth = IF d > @ THEN d ELSE @]
        s2 == slice_fanout(s1, fromViewer, 1)
    IN \* finally:
       [s2 EXCEPT !.w.handling_slice_sync = FALSE, !.o.depth = d - 1]

\* The assignment _handling_range_sync = False that follows a call (lines
\* 454, 497 and 682): not reached when the call raised.
range_flag_cleared(s, v) ==
    IF s.exc THEN s ELSE [s EXCEPT !.c[v].handling_range_sync = FALSE]

\* SplitViewMdiChild.apply_display_range_sync
apply_display_range_sync(s, v, min_value, max_value) ==
    IF ~s.c[v].is_volumetric THEN s
    ELSE
    LET s1 == [s EXCEPT !.c[v].handling_range_sync = TRUE,
                        !.o.range_applied = Bump(@, v)]
    IN \* the sliders and labels are set first (lines 656-669)
       IF v \in s.f.raise THEN [s1 EXCEPT !.exc = TRUE]
       ELSE
       LET r  == update_display_range(s1.h[v], min_value, max_value, FALSE)
           s2 == [s1 EXCEPT !.h[v] = r.h]
           s3 == IF r.ok THEN load_slice(s2, v, s2.c[v].current_slice)
                         ELSE s2
       IN IF s3.exc THEN s3
          ELSE [s3 EXCEPT !.c[v].handling_range_sync = FALSE]

\* One iteration of the loop of synchDisplayRange, for subwindow k.
range_apply(s, fromViewer, k, min_value, max_value) ==
    IF s.c[k].open /\ k # fromViewer /\ s.c[k].sync_this_range
       /\ s.c[k].is_volumetric
    THEN apply_display_range_sync(s, k, min_value, max_value)
    ELSE s

RECURSIVE range_fanout(_, _, _, _, _)
\* The loop of synchDisplayRange over subWindowList().
range_fanout(s, fromViewer, k, min_value, max_value) ==
    IF k > Len(s.c) \/ s.exc THEN s
    ELSE range_fanout(range_apply(s, fromViewer, k, min_value, max_value),
                      fromViewer, k + 1, min_value, max_value)

\* MultiViewMainWindow.synchDisplayRange (the definition at line 4710, which
\* replaces the one at line 2846).
synchDisplayRange(s, fromViewer, min_value, max_value) ==
    IF ~s.c[fromViewer].is_volumetric THEN s
    ELSE IF ~s.w.synchRangeAct THEN s
    ELSE IF s.w.handling_range_sync THEN s
    ELSE
    LET s1 == [s EXCEPT !.w.handling_range_sync = TRUE,
                        !.o.range_fanout = Bump(@, fromViewer)]
        s2 == range_fanout(s1, fromViewer, 1, min_value, max_value)
    IN \* finally:
       [s2 EXCEPT !.w.handling_range_sync = FALSE]

\* The slot connected to display_range_changed in createMdiChild (line 1872).
emit_display_range_changed(s, v, min_value, max_value) ==
    LET s1 == synchDisplayRange(s, v, min_value, max_value)
    IN IF s1.exc
       THEN [s1 EXCEPT !.exc = FALSE, !.o.reported = @ + 1]
       ELSE s1

\* update_display_range, lines 449-454, and reset_display_range, lines
\* 492-497: the direct fan-out under the viewer's own flag.
range_direct(s, v, min_value, max_value) ==
    IF s.exc \/ ~s.c[v].sync_this_range THEN s
    ELSE range_flag_cleared(
           synchDisplayRange([s EXCEPT !.c[v].handling_range_sync = TRUE],
                             v, min_value, max_value), v)

\* update_display_range, line 447, and reset_display_range, line 489: the
\* current slice is loaded again.
range_reload(s, v) == load_slice(s, v, s.c[v].current_slice)

\* The common tail of SplitViewMdiChild.update_display_range (lines 438-454)
\* and reset_display_range (lines 468-497): signal, reload, direct fan-out.
range_changed(s, v) ==
    range_direct(
        range_reload(
            emit_display_range_changed(s, v, s.h[v].data_range[1],
                                       s.h[v].data_range[2]), v),
        v, s.h[v].data_range[1], s.h[v].data_range[2])

\* SplitViewMdiChild.update_display_range
child_update_display_range(s, v, min_value, max_value) ==
    IF ~s.c[v].is_volumetric THEN s
    ELSE IF s.c[v].handling_range_sync THEN s
    ELSE LET r == update_display_range(s.h[v], min_value, max_value, FALSE)
             s1 == [s EXCEPT !.h[v] = r.h, !.o.accepted = r.ok]
         IN IF r.ok THEN range_changed(s1, v) ELSE s1

\* SplitViewMdiChild.reset_display_range
child_reset_display_range(s, v) ==
    IF ~s.c[v].is_volumetric THEN s
    ELSE IF s.c[v].handling_range_sync THEN s
    ELSE range_changed([s EXCEPT !.h[v] = reset_display_range(@),
                                 !.o.accepted = TRUE], v)

\* One iteration of the loop of synchPan, for subwindow k: the scrollState
\* setter makes the sibling emit scrollChanged, whose slot panChanged calls
\* synchPan again and returns at the guard.
pan_apply(s, fromViewer, k) ==
    IF ~(s.c[k].open /\ k # fromViewer /\ s.c[k].sync_this_pan) THEN s
    ELSE IF k \in s.f.raise THEN [s EXCEPT !.exc = TRUE]
    ELSE [s EXCEPT !.c[k].scrollState = s.c[fromViewer].scrollState,
                   !.o.pan_applied = Bump(@, k)]

RECURSIVE pan_fanout(_, _, _)
\* The loop of synchPan over subWindowList().
pan_fanout(s, fromViewer, k) ==
    IF k > Len(s.c) \/ s.exc THEN s
    ELSE pan_fanout(pan_apply(s, fromViewer, k), fromViewer, k + 1)

\* MultiViewMainWindow.synchPan
synchPan(s, fromViewer) ==
    IF s.w.handlingScrollChangedSignal THEN s
    ELSE IF fromViewer # s.w.activeSubWindow THEN s
    ELSE
    LET s1 == pan_fanout([s EXCEPT !.w.handlingScrollChangedSignal = TRUE],
                         fromViewer, 1)
    IN IF s1.exc THEN s1
       ELSE [s1 EXCEPT !.w.handlingScrollChangedSignal = FALSE]

\* MultiViewMainWindow.panChanged, the slot of scrollChanged.
panChanged(s, v) ==
    LET s1 == IF s.w.synchPanAct THEN synchPan(s, v) ELSE s
    IN IF s1.exc
       THEN [s1 EXCEPT !.exc = FALSE, !.o.reported = @ + 1]
       ELSE s1

\* A next-slice handler without its test of the last slice.
goto_next_slice_unguarded(s, v) ==
    IF s.c[v].is_volumetric
    THEN load_slice(s, v, s.c[v].current_slice + 1)
    ELSE s

\* SplitViewMdiChild.goto_next_slice
goto_next_slice(s, v) ==
    IF s.c[v].is_volumetric
       /\ s.c[v].current_slice < s.c[v].total_slices - 1
    THEN load_slice(s, v, s.c[v].current_slice + 1)
    ELSE s

\* SplitViewMdiChild.goto_previous_slice
goto_previous_slice(s, v) ==
    IF s.c[v].is_volumetric /\ s.c[v].current_slice > 0
    THEN load_slice(s, v, s.c[v].current_slice - 1)
    ELSE s

\* ------------------------------------------------------------------ state

VARIABLES
    store,      \* a VolumetricImageHandler driven through its own interface
    last,       \* the last call made on store and its result
    handler,    \* handler[v]: the VolumetricImageHandler of viewer v
    child,      \* child[v]: the SplitViewMdiChild of subwindow v
    window,     \* the MultiViewMainWindow
    obs         \* what the last user action of the viewer did

vars == <<store, last, handler, child, window, obs>>
storeVars == <<store, last>>
viewerVars == <<handler, child, window, obs>>

\* The stacks that may be opened: raw samples spanning [gmin, gmax], a
\* constant-valued stack included.
FileRanges == {<<1, MaxVal>>, <<1, 1>>}

\* op: the method called; ok: its result; pixmap: the raster returned;
\* evicted: the cache keys the call dropped.
NoCall == [op |-> "open", ok |-> TRUE, pixmap |-> NoPixmap, evicted |-> {}]

Evicted(h, h2) == CacheKeys(h.cached_slices) \ CacheKeys(h2.cached_slices)

\* The files the three subwindows are opened on, in the order they are
\* opened: a 5-frame stack, a 3-frame stack and a single image (0 frames).
StackFrames == <<5, 3, 0>>
Viewers == 1..Len(StackFrames)
Zero == [v \in Viewers |-> 0]

\* SplitViewMdiChild.__init__, lines 114-125, for a subwindow not yet made.
NoChild ==
    [open |-> FALSE, is_volumetric |-> FALSE, total_slices |-> 0,
     current_slice |-> 0, pixmap |-> NoPixmap, black_items |-> 0,
     black_pixmap |-> NoPixmap,
     sync_this_slice |-> TRUE, sync_this_range |-> TRUE,
     sync_this_pan |-> TRUE,
     handling_slice_sync |-> FALSE, handling_range_sync |-> FALSE,
     scrollState |-> 0]

\* A handler slot of a subwindow that has none (volumetric_handler = None).
NoHandler == new_handler(File(0, 0, 0))

\* MultiViewMainWindow.__init__ (lines 727-729) and readSettings, which
\* checks the synch actions at start-up.
NewWindow ==
    [handling_slice_sync |-> FALSE, handling_range_sync |-> FALSE,
     handlingScrollChangedSignal |-> FALSE,
     synchRangeAct |-> TRUE, synchPanAct |-> TRUE,
     activeSubWindow |-> 0, created |-> 0]

NoFaults == [raise |-> {}, decode |-> {}]

\* The record of a user action that has just begun.
Fresh(kind, origin, idx) ==
    [kind |-> kind, origin |-> origin, idx |-> idx,
     calls |-> Zero, applied |-> Zero, blocked |-> Zero, blanked |-> Zero,
     fanout |-> Zero, depth |-> 0, maxdepth |-> 0, nested |-> FALSE,
     range_applied |-> Zero, range_fanout |-> Zero, accepted |-> FALSE,
     pan_applied |-> Zero,
     reported |-> 0, raised |-> FALSE, faulty |-> FALSE,
     clamped |-> FALSE, faults |-> 0]

\* The program state a handler starts from.
Begin(kind, origin, idx, faults) ==
    [h |-> handler, c |-> child, w |-> window,
     o |-> [Fresh(kind, origin, idx) EXCEPT
               !.faulty = (faults # NoFaults),
               !.clamped = obs.clamped,
               !.faults = obs.faults + IF faults # NoFaults THEN 1 ELSE 0],
     exc |-> FALSE, f |-> faults]

\* The action just run moved the first viewer to its last slice, and the
\* second viewer, which has fewer slices and is slice-synced like the first,
\* was left on its own last slice.
Clamped(s) ==
    /\ s.o.kind = "slice" /\ s.o.origin = 1
    /\ s.o.idx = s.c[1].total_slices - 1
    /\ s.c[1].sync_this_slice
    /\ s.c[2].open /\ s.c[2].is_volumetric /\ s.c[2].sync_this_slice
    /\ s.c[2].total_slices < s.c[1].total_slices
    /\ s.c[2].current_slice = s.c[2].total_slices - 1

\* The handler has returned to the event loop; an exception that reached the
\* top is reported there.
Return(s) ==
    /\ handler' = s.h
    /\ child' = s.c
    /\ window' = s.w
    /\ obs' = [s.o EXCEPT !.raised = s.exc,
                           !.clamped = @ \/ Clamped(s)]
    /\ UNCHANGED storeVars

\* The main window before any file is loaded.
InitViewer ==
    /\ handler = [v \in Viewers |-> NoHandler]
    /\ child = [v \in Viewers |-> NoChild]
    /\ window = NewWindow
    /\ obs = Fresh("none", 0, 0)

\* The viewer application after start-up.
Init ==
    /\ store = new_handler(File(StoreSlices, 1, MaxVal))
    /\ last = NoCall
    /\ InitViewer

\* A handler just constructed on one of the stacks of FileRanges, as the
\* tester tool constructs it: there is no subwindow.
InitStore ==
    /\ \E r \in FileRanges : store = new_handler(File(StoreSlices, r[1], r[2]))
    /\ last = NoCall
    /\ handler = <<>>
    /\ child = <<>>
    /\ window = NewWindow
    /\ obs = Fresh("none", 0, 0)

\* VolumetricTesterApp._load_slice: set_current_slice, then get_slice_pixmap.
StoreLoadSlice(i) ==
    LET h1 == set_current_slice(store, i)
        r  == get_slice_pixmap(h1, i, FALSE)
    IN /\ store' = r.h
       /\ last' = [op |-> "decode", ok |-> (r.pixmap # NoPixmap),
                    pixmap |-> r.pixmap, evicted |-> Evicted(store, r.h)]
       /\ UNCHANGED viewerVars

\* VolumetricTesterApp._go_to_next_slice
StoreGoToNext ==
    /\ store.current_slice < store.total_slices - 1
    /\ StoreLoadSlice(store.current_slice + 1)

\* VolumetricTesterApp._go_to_first_slice
StoreGoToFirst == StoreLoadSlice(0)

\* get_slice_pixmap with an index outside the stack.
StoreDecodeInvalid ==
    \E i \in {-2, store.total_slices} :
        LET r == get_slice_pixmap(store, i, FALSE)
        IN /\ store' = r.h
           /\ last' = [op |-> "decode", ok |-> (r.pixmap # NoPixmap),
                        pixmap |-> r.pixmap, evicted |-> {}]
           /\ UNCHANGED viewerVars

\* update_display_range with any arguments.
StoreUpdateRange ==
    \E a \in OptVals, b \in OptVals, f \in BOOLEAN :
        LET r == update_display_range(store, a, b, f)
        IN /\ store' = r.h
           /\ last' = [NoCall EXCEPT !.op = "update", !.ok = r.ok]
           /\ UNCHANGED viewerVars

\* reset_display_range
StoreResetRange ==
    /\ store' = reset_display_range(store)
    /\ last' = [NoCall EXCEPT !.op = "reset"]
    /\ UNCHANGED viewerVars

\* _analyze_file run again on the open handler (re-detection).
StoreAnalyzeFile ==
    /\ store' = analyze_file(store)
    /\ last' = [NoCall EXCEPT !.op = "analyze"]
    /\ UNCHANGED viewerVars

NextStore ==
    \/ StoreGoToNext
    \/ StoreGoToFirst
    \/ StoreDecodeInvalid
    \/ StoreUpdateRange
    \/ StoreResetRange

\* The handler driven through decode, range update and reset.
SpecStore == InitStore /\ [][NextStore]_vars

NextRange ==
    \/ StoreGoToNext
    \/ StoreUpdateRange
    \/ StoreResetRange
    \/ StoreAnalyzeFile

\* The handler with detection run again on the open file.  The application
\* runs _analyze_file from __init__ only; here it may run at any time.
SpecRange == InitStore /\ [][NextRange]_vars

\* --------------------------------------- user actions, store with samples

\* The indices of the frames of a small stack and of the samples of a frame.
FrameShape == 1..2

\* The stacks opened here: two frames of two samples, of every sample kind.
PixelStacks ==
    {Stack(m, fr) : m \in Modes, fr \in [FrameShape -> [FrameShape -> Vals]]}

\* The last call with its arguments: index for a decode or an array read,
\* min_value, max_value and force for a range update.
NoCallArgs ==
    [op |-> "open", ok |-> TRUE, pixmap |-> NoPixmap, index |-> None,
     min_value |-> None, max_value |-> None, force |-> FALSE,
     was_forced |-> FALSE]

\* A handler just constructed on one of PixelStacks; there is no subwindow.
InitPixel ==
    /\ \E f \in PixelStacks : store = new_handler(f)
    /\ last = NoCallArgs
    /\ handler = <<>>
    /\ child = <<>>
    /\ window = NewWindow
    /\ obs = Fresh("none", 0, 0)

\* get_slice_pixmap(i)
PixelDecode(i) ==
    LET r == get_slice_pixmap(store, i, FALSE)
    IN /\ store' = r.h
       /\ last' = [NoCallArgs EXCEPT !.op = "decode", !.index = i,
                                     !.ok = (r.pixmap # NoPixmap),
                                     !.pixmap = r.pixmap]
       /\ UNCHANGED viewerVars

\* get_slice_array(i): the method assigns to no attribute of the handler.
PixelGetArray(i) ==
    LET arr == get_slice_array(store, i)
    IN /\ store' = store
       /\ last' = [NoCallArgs EXCEPT !.op = "array", !.index = i,
                                     !.ok = (arr # NoPixmap),
                                     !.pixmap = arr]
       /\ UNCHANGED viewerVars

\* update_display_range with any arguments.
PixelUpdateRange ==
    \E a \in OptVals, b \in OptVals, f \in BOOLEAN :
        LET r == update_display_range(store, a, b, f)
        IN /\ store' = r.h
           /\ last' = [NoCallArgs EXCEPT !.op = "update", !.ok = r.ok]
           /\ UNCHANGED viewerVars

\* reset_display_range()
PixelResetRange ==
    /\ store' = reset_display_range(store)
    /\ last' = [NoCallArgs EXCEPT !.op = "reset"]
    /\ UNCHANGED viewerVars

NextPixel ==
    \/ \E i \in 0..Cardinality(FrameShape) : PixelDecode(i)
    \/ \E i \in {None} \cup (0..Cardinality(FrameShape)) : PixelGetArray(i)
    \/ PixelUpdateRange
    \/ PixelResetRange

\* The handler on stacks given sample by sample.
SpecPixel == InitPixel /\ [][NextPixel]_vars

\* A handler just constructed on one of the stacks of FileRanges.
InitWindow ==
    /\ \E r \in FileRanges : store = new_handler(File(StoreSlices, r[1], r[2]))
    /\ last = NoCallArgs
    /\ handler = <<>>
    /\ child = <<>>
    /\ window = NewWindow
    /\ obs = Fresh("none", 0, 0)

\* update_display_range(a, b, f), the arguments recorded.
WindowUpdateRange(a, b, f) ==
    LET r == update_display_range(store, a, b, f)
    IN /\ store' = r.h
       /\ last' = [NoCallArgs EXCEPT !.op = "update", !.ok = r.ok,
                                     !.min_value = a, !.max_value = b,
                                     !.force = f]
       /\ UNCHANGED viewerVars

\* reset_display_range()
WindowResetRange ==
    /\ store' = reset_display_range(store)
    /\ last' = [NoCallArgs EXCEPT !.op = "reset",
                                  !.was_forced = store.use_forced_range]
    /\ UNCHANGED viewerVars

NextWindow ==
    \/ StoreGoToNext
    \/ \E a \in OptVals, b \in OptVals, f \in BOOLEAN : WindowUpdateRange(a, b, f)
    \/ WindowResetRange

\* The handler under range updates whose arguments are recorded.
SpecWindow == InitWindow /\ [][NextWindow]_vars

\* ------------------------------------ user actions, store with a history

\* seen[i]: the raster a decode of frame i returned since the window last
\* changed, NoPixmap when there was none.  afresh: the last decode was of a
\* frame seen before and no longer in the cache.
NoHistory ==
    [op |-> "open", ok |-> TRUE, pixmap |-> NoPixmap,
     seen |-> [i \in 0..(StoreSlices - 1) |-> NoPixmap], afresh |-> FALSE]

\* A handler just constructed on a stack that overfills the cache.
InitCache ==
    /\ store = new_handler(File(StoreSlices, 1, MaxVal))
    /\ last = NoHistory
    /\ handler = <<>>
    /\ child = <<>>
    /\ window = NewWindow
    /\ obs = Fresh("none", 0, 0)

\* VolumetricTesterApp._load_slice(i), the rasters returned remembered.
CacheLoadSlice(i) ==
    LET h1 == set_current_slice(store, i)
        r  == get_slice_pixmap(h1, i, FALSE)
    IN /\ store' = r.h
       /\ last' = [last EXCEPT
                     !.op = "decode", !.ok = (r.pixmap # NoPixmap),
                     !.pixmap = r.pixmap,
                     !.seen[i] = IF @ = NoPixmap THEN r.pixmap ELSE @,
                     !.afresh = /\ last.seen[i] # NoPixmap
                                /\ i \notin CacheKeys(store.cached_slices)]
       /\ UNCHANGED viewerVars

\* VolumetricTesterApp._go_to_next_slice
CacheGoToNext ==
    /\ store.current_slice < store.total_slices - 1
    /\ CacheLoadSlice(store.current_slice + 1)

\* VolumetricTesterApp._go_to_first_slice
CacheGoToFirst == CacheLoadSlice(0)

\* update_display_range with any arguments; an accepted call changes the
\* window.
CacheUpdateRange ==
    \E a \in OptVals, b \in OptVals, f \in BOOLEAN :
        LET r == update_display_range(store, a, b, f)
        IN /\ store' = r.h
           /\ last' = [last EXCEPT
                         !.op = "update", !.ok = r.ok, !.pixmap = NoPixmap,
                         !.seen = IF r.ok THEN NoHistory.seen ELSE @,
                         !.afresh = FALSE]
           /\ UNCHANGED viewerVars

NextCache ==
    \/ CacheGoToNext
    \/ CacheGoToFirst
    \/ CacheUpdateRange

\* The handler decoding frame after frame, every raster it returned under
\* the current window remembered.
SpecCache == InitCache /\ [][NextCache]_vars

\* ------------------------------------------------ user actions, opening

\* What is on disk under a path: whether a TIFF reader can open it, whether
\* tifffile can memory-map it, samples per pixel, pages, rows of a page, the
\* extremes of its samples and the PIL mode of a single-sample page.
Containers ==
    [readable : BOOLEAN, mappable : BOOLEAN, samples : {1, 3},
     pages : FrameShape, rows : FrameShape,
     range : FileRanges, mode : {"L", "I;16"}]

\* _analyze_file, lines 78-81: shape[0] of the mapped array, which is the
\* page count of a multi-page file and the row count of a single page.
mm_slices(c) == IF c.pages > 1 THEN c.pages ELSE c.rows

\* _analyze_file, lines 99-114 and 119-126: mode 'L' is given (0, 255)
\* unscanned, the other modes are scanned.
pil_range(c) == IF c.mode = "L" THEN <<DefaultMin, DefaultMax>> ELSE c.range

\* _analyze_file, lines 139-141: the defaults of __init__ with no slices.
failed_handler(c) ==
    [file |-> File(0, c.range[1], c.range[2]),
     total_slices |-> 0,
     current_slice |-> 0,
     data_range |-> <<DefaultMin, DefaultMax>>,
     original_data_range |-> <<DefaultMin, DefaultMax>>,
     use_forced_range |-> FALSE,
     cached_slices |-> <<>>]

\* VolumetricImageHandler(path): the tifffile branch when the file can be
\* mapped, else the PIL branch, whose mode test lets single-sample pages
\* through, else the except clause.  Both except clauses swallow the error:
\* the constructor returns a handler in every case.
open_container(c) ==
    IF c.readable /\ c.mappable
    THEN new_handler(File(mm_slices(c), c.range[1], c.range[2]))
    ELSE IF c.readable /\ c.samples = 1
    THEN new_handler(File(c.pages, pil_range(c)[1], pil_range(c)[2]))
    ELSE failed_handler(c)

\* is_volumetric_file: one sample per pixel and more than one page; every
\* exception gives False.
is_volumetric_file(c) == c.readable /\ c.samples = 1 /\ c.pages > 1

\* loadFile, lines 1677-1760: a volumetric file gets a handler and, when its
\* centre frame decodes, a volumetric viewer; any other file goes on to the
\* regular image path, where a viewer is created when Qt reads the file.
load_file(c, qt_reads) ==
    IF is_volumetric_file(c)
    THEN LET h == open_container(c)
             r == get_slice_pixmap(h, h.total_slices \div 2, FALSE)
         IN [h |-> r.h,
             viewer |-> IF r.pixmap = NoPixmap THEN "none"
                        ELSE "volumetric"]
    ELSE [h |-> failed_handler(c),
          viewer |-> IF c.readable /\ qt_reads THEN "image" ELSE "none"]

\* The tester before a file is chosen: no handler.
InitOpen ==
    /\ store = [total_slices |-> 0]
    /\ last = [op |-> "none", viewer |-> "none"]
    /\ handler = <<>>
    /\ child = <<>>
    /\ window = NewWindow
    /\ obs = Fresh("none", 0, 0)

\* VolumetricImageHandler(path) on any file.
OpenConstruct ==
    \E c \in Containers :
        /\ store' = open_container(c)
        /\ last' = [op |-> "construct", viewer |-> "none", container |-> c]
        /\ UNCHANGED viewerVars

\* MultiViewMainWindow.loadFile(path) on any file.
OpenLoadFile ==
    \E c \in Containers, qt_reads \in BOOLEAN :
        LET r == load_file(c, qt_reads)
        IN /\ store' = r.h
           /\ last' = [op |-> "load", viewer |-> r.viewer, container |-> c]
           /\ UNCHANGED viewerVars

NextOpen ==
    \/ OpenConstruct
    \/ OpenLoadFile

\* Files of every kind opened one after another.
SpecOpen == InitOpen /\ [][NextOpen]_vars

\* ----------------------------------------------- user actions, viewer

\* The raster of a single image file.
StaticPixmap == <<None, 0, 0>>

\* MultiViewMainWindow.loadFile for the next file of StackFrames: the
\* volumetric branch (lines 1679-1738) or the plain image branch, then
\* createMdiChild and setup_volumetric_mode.  The new subwindow is shown and
\* becomes the active one.
LoadFile ==
    LET v == window.created + 1
    IN /\ v \in Viewers
       /\ LET n  == StackFrames[v]
              h0 == new_handler(File(n, 1, MaxVal))
              r  == get_slice_pixmap(h0, h0.total_slices \div 2, FALSE)
          IN /\ handler' = [handler EXCEPT ![v] = IF n > 1 THEN r.h ELSE @]
             /\ child' = [child EXCEPT ![v] =
                   IF n > 1
                   THEN [NoChild EXCEPT !.open = TRUE,
                                        !.is_volumetric = TRUE,
                                        !.total_slices = h0.total_slices,
                                        !.current_slice = h0.total_slices \div 2,
                                        !.pixmap = r.pixmap]
                   ELSE [NoChild EXCEPT !.open = TRUE,
                                        !.pixmap = StaticPixmap]]
       /\ window' = [window EXCEPT !.created = v, !.activeSubWindow = v]
       /\ obs' = [Fresh("load", v, 0) EXCEPT !.clamped = obs.clamped,
                                         !.faults = obs.faults]
       /\ UNCHANGED storeVars

\* A subwindow is closed: it leaves subWindowList() and the widget is deleted
\* (WA_DeleteOnClose, line 108); another open subwindow, if there is one,
\* becomes the active one.
CloseViewer(v) ==
    /\ child[v].open
    /\ child' = [child EXCEPT ![v] = NoChild]
    /\ handler' = [handler EXCEPT ![v] = NoHandler]
    /\ \E a \in Viewers \cup {0} :
          /\ IF \E u \in Viewers : u # v /\ child[u].open
             THEN a \in Viewers /\ a # v /\ child[a].open
             ELSE a = 0
          /\ window' = [window EXCEPT !.activeSubWindow =
                           IF @ = v THEN a ELSE @]
    /\ obs' = [Fresh("close", v, 0) EXCEPT !.clamped = obs.clamped,
                                         !.faults = obs.faults]
    /\ UNCHANGED storeVars

\* SplitViewMdiChild.goto_next_slice
GotoNextSlice(v, faults) ==
    /\ child[v].open
    /\ child[v].is_volumetric
    /\ child[v].current_slice < child[v].total_slices - 1
    /\ Return(load_slice(Begin("slice", v, child[v].current_slice + 1, faults),
                         v, child[v].current_slice + 1))

\* SplitViewMdiChild.goto_previous_slice
GotoPreviousSlice(v, faults) ==
    /\ child[v].open
    /\ child[v].is_volumetric
    /\ child[v].current_slice > 0
    /\ Return(load_slice(Begin("slice", v, child[v].current_slice - 1, faults),
                         v, child[v].current_slice - 1))

\* The positions the slice slider (range 0 .. total_slices - 1, line 317) is
\* dragged to: its two ends.
SliderStops(total) == {0, total - 1}

\* SplitViewMdiChild.on_slice_slider_changed: the slider was moved to value.
OnSliceSliderChanged(v, value, faults) ==
    /\ child[v].open
    /\ child[v].is_volumetric
    /\ value \in SliderStops(child[v].total_slices)
    /\ value # child[v].current_slice
    /\ Return(load_slice(Begin("slice", v, value, faults), v, value))

\* The sync_this_slice setter.
SetSyncThisSlice(v, b) ==
    /\ child[v].open
    /\ child[v].sync_this_slice # b
    /\ child' = [child EXCEPT ![v].sync_this_slice = b]
    /\ obs' = [Fresh("toggle", v, 0) EXCEPT !.clamped = obs.clamped,
                                         !.faults = obs.faults]
    /\ UNCHANGED <<handler, window, storeVars>>

Next ==
    \/ LoadFile
    \/ \E v \in Viewers : CloseViewer(v)
    \/ \E v \in Viewers : GotoNextSlice(v, NoFaults)
    \/ \E v \in Viewers : GotoPreviousSlice(v, NoFaults)
    \/ \E v \in Viewers : \E i \in SliderStops(child[v].total_slices) :
          OnSliceSliderChanged(v, i, NoFaults)
    \/ \E v \in Viewers, b \in BOOLEAN : SetSyncThisSlice(v, b)

\* The viewer windows under slice navigation, with collaborators that do
\* not fail.
Spec == Init /\ [][Next]_vars

\* The window-level values a range slider is moved to: one end of the window
\* at a time (on_min_slider_changed, on_max_slider_changed).
RangeInputs ==
    {<<a, None>> : a \in Vals} \cup {<<None, b>> : b \in Vals}

\* SplitViewMdiChild.update_display_range, called by the slider handlers.
UpdateDisplayRange(v, min_value, max_value, faults) ==
    /\ child[v].open
    /\ child[v].is_volumetric
    /\ Return(child_update_display_range(Begin("range", v, 0, faults),
                                         v, min_value, max_value))

\* SplitViewMdiChild.reset_display_range, the slot of the reset button.
ResetDisplayRange(v, faults) ==
    /\ child[v].open
    /\ child[v].is_volumetric
    /\ Return(child_reset_display_range(Begin("range", v, 0, faults), v))

\* The scroll positions of a view.
PanStates == {0, 1}

\* The user scrolls the view of the active subwindow v to position p: the
\* view emits scrollChanged, whose slot is panChanged.
UserPan(v, p, faults) ==
    /\ child[v].open
    /\ v = window.activeSubWindow
    /\ p # child[v].scrollState
    /\ Return(panChanged([Begin("pan", v, p, faults) EXCEPT
                             !.c[v].scrollState = p], v))

\* The collaborators of one user action: all sound, or the widgets of one
\* subwindow raising when they are updated.  At most FaultBudget user actions
\* of a run meet a fault.
FaultSets ==
    {NoFaults} \cup
    IF obs.faults < FaultBudget
    THEN {[raise |-> {u}, decode |-> {}] : u \in Viewers}
    ELSE {}

NextFault ==
    \/ LoadFile
    \/ \E v \in Viewers, f \in FaultSets : GotoNextSlice(v, f)
    \/ \E v \in Viewers, r \in RangeInputs, f \in FaultSets :
          UpdateDisplayRange(v, r[1], r[2], f)
    \/ \E v \in Viewers, f \in FaultSets : ResetDisplayRange(v, f)
    \/ \E v \in Viewers, p \in PanStates, f \in FaultSets : UserPan(v, p, f)

\* The viewer windows stepped forward through their stacks, under range and
\* pan changes, with widgets that may raise.
SpecFault == Init /\ [][NextFault]_vars

\* The collaborators of one user action: all sound, or the decoder of one
\* subwindow's handler raising.  At most FaultBudget user actions of a run
\* meet a fault.
DecodeFaultSets ==
    {NoFaults} \cup
    IF obs.faults < FaultBudget
    THEN {[raise |-> {}, decode |-> {u}] : u \in Viewers}
    ELSE {}

\* get_slice_pixmap of the next frame, the decoder raising inside the try
\* (lines 233-266).
StoreDecodeFails ==
    /\ store.current_slice < store.total_slices - 1
    /\ LET r == get_slice_pixmap(store, store.current_slice + 1, TRUE)
       IN /\ store' = r.h
          /\ last' = [op |-> "decode", ok |-> (r.pixmap # NoPixmap),
                       pixmap |-> r.pixmap, evicted |-> Evicted(store, r.h)]
          /\ UNCHANGED viewerVars

NextDecode ==
    \/ LoadFile
    \/ \E v \in Viewers, f \in DecodeFaultSets : GotoNextSlice(v, f)
    \/ \E v \in Viewers, f \in DecodeFaultSets : GotoPreviousSlice(v, f)
    \/ StoreGoToFirst
    \/ StoreDecodeInvalid
    \/ StoreDecodeFails

\* The viewer windows and a bare handler under slice navigation, with
\* decoders that may raise.
SpecDecode == Init /\ [][NextDecode]_vars

\* The sync_this_range setter.
SetSyncThisRange(v, b) ==
    /\ child[v].open
    /\ child[v].sync_this_range # b
    /\ child' = [child EXCEPT ![v].sync_this_range = b]
    /\ obs' = [Fresh("toggle", v, 0) EXCEPT !.clamped = obs.clamped,
                                         !.faults = obs.faults]
    /\ UNCHANGED <<handler, window, storeVars>>

NextToggle ==
    \/ LoadFile
    \/ \E v \in Viewers : GotoNextSlice(v, NoFaults)
    \/ \E v \in Viewers, a \in Vals :
          UpdateDisplayRange(v, a, None, NoFaults)
    \/ \E v \in Viewers : ResetDisplayRange(v, NoFaults)
    \/ \E v \in {2, 3}, b \in BOOLEAN : SetSyncThisSlice(v, b)
    \/ \E v \in {2}, b \in BOOLEAN : SetSyncThisRange(v, b)

\* The viewer windows stepped forward through their stacks, the lower end of
\* the window moved and reset, the toggles of the second and third subwindow
\* switched on and off.
SpecToggle == Init /\ [][NextToggle]_vars

\* The next-slice button or shortcut of subwindow v, at any slice.
PressNextSlice(v) ==
    /\ child[v].open
    /\ Return(goto_next_slice(
                Begin("slice", v, child[v].current_slice + 1, NoFaults), v))

\* The previous-slice button or shortcut of subwindow v, at any slice.
PressPreviousSlice(v) ==
    /\ child[v].open
    /\ Return(goto_previous_slice(
                Begin("slice", v, child[v].current_slice - 1, NoFaults), v))

NextPress ==
    \/ LoadFile
    \/ \E v \in Viewers : PressNextSlice(v)
    \/ \E v \in Viewers : PressPreviousSlice(v)
    \/ \E v \in Viewers, b \in BOOLEAN : SetSyncThisSlice(v, b)

\* The viewer windows with their slice buttons pressed at every slice, the
\* first and the last included.
SpecPress == Init /\ [][NextPress]_vars

\* update_display_range(a, b, force=True): a window forced on the handler.
StoreForceRange ==
    \E a \in Vals, b \in Vals :
        LET r == update_display_range(store, a, b, TRUE)
        IN /\ store' = r.h
           /\ last' = [NoCall EXCEPT !.op = "update", !.ok = r.ok]
           /\ UNCHANGED viewerVars

NextNavigate ==
    \/ LoadFile
    \/ \E v \in Viewers : GotoNextSlice(v, NoFaults)
    \/ \E v \in Viewers : GotoPreviousSlice(v, NoFaults)
    \/ UpdateDisplayRange(1, 0, None, NoFaults)
    \/ StoreGoToFirst
    \/ StoreForceRange
    \/ StoreResetRange

\* The viewer windows navigated after the min slider of the first one was
\* drawn to 0, beside a handler on which a window can be forced.
SpecNavigate == Init /\ [][NextNavigate]_vars

\* ------------------------------------------- user actions, range sliders

\* The factor of the slider handlers for float data (lines 355, 381, 406).
FloatPrecision == 10000

\* Window values of the stacks below are counted in units of 1/Scale of a
\* raw unit, half a slider step of a float stack, so that a float window may
\* lie between two slider positions.
Scale == 2 * FloatPrecision

\* The stacks the subwindows are opened on when the sliders are studied: an
\* integer stack with samples 1 .. 1 + MaxVal, and a float stack whose
\* extremes lie half a slider step above 1 and above 1 + (MaxVal + 1)/10000.
SliderStacks ==
    <<[frames |-> 3, is_float |-> FALSE,
       gmin |-> Scale, gmax |-> (1 + MaxVal) * Scale],
      [frames |-> 3, is_float |-> TRUE,
       gmin |-> Scale + 1, gmax |-> Scale + 2 * (MaxVal + 1) + 1]>>

\* precision = 10000 if self.volumetric_handler.is_float else 1
precision(v) == IF SliderStacks[v].is_float THEN FloatPrecision ELSE 1

\* int(x * precision) for a value x counted in units: truncation towards 0.
slider_int(x, prec) ==
    IF x >= 0 THEN (x * prec) \div Scale ELSE -(((-x) * prec) \div Scale)

\* value / precision, in units.
slider_value(value, prec) == value * (Scale \div prec)

\* A handler that leaves no gap between the two ends of the window.
slider_gap_none(prec) == 0

\* 1/precision, in units: the gap the handlers keep (lines 387, 412).
slider_gap(prec) == Scale \div prec

\* setup_data_range_controls: the positions of the min and the max slider.
SliderPositions(v) ==
    slider_int(handler[v].original_data_range[1], precision(v))
    .. slider_int(handler[v].original_data_range[2], precision(v))

\* SplitViewMdiChild.on_min_slider_changed
on_min_slider_changed(s, v, value) ==
    IF ~s.c[v].is_volumetric THEN s
    ELSE LET min_value == slider_value(value, precision(v))
             curr_max  == s.h[v].data_range[2]
         IN child_update_display_range(s, v,
                IF min_value >= curr_max
                THEN curr_max - slider_gap(precision(v)) ELSE min_value,
                None)

\* SplitViewMdiChild.on_max_slider_changed
on_max_slider_changed(s, v, value) ==
    IF ~s.c[v].is_volumetric THEN s
    ELSE LET max_value == slider_value(value, precision(v))
             curr_min  == s.h[v].data_range[1]
         IN child_update_display_range(s, v, None,
                IF max_value <= curr_min
                THEN curr_min + slider_gap(precision(v)) ELSE max_value)

\* MultiViewMainWindow.loadFile for the next stack of SliderStacks.
LoadStack ==
    LET v == window.created + 1
    IN /\ v \in 1..Len(SliderStacks)
       /\ LET f  == SliderStacks[v]
              h0 == new_handler(File(f.frames, f.gmin, f.gmax))
              r  == get_slice_pixmap(h0, h0.total_slices \div 2, FALSE)
          IN /\ handler' = [handler EXCEPT ![v] = r.h]
             /\ child' = [child EXCEPT ![v] =
                   [NoChild EXCEPT !.open = TRUE,
                                   !.is_volumetric = TRUE,
                                   !.total_slices = h0.total_slices,
                                   !.current_slice = h0.total_slices \div 2,
                                   !.pixmap = r.pixmap]]
       /\ window' = [window EXCEPT !.created = v, !.activeSubWindow = v]
       /\ obs' = [Fresh("load", v, 0) EXCEPT !.clamped = obs.clamped,
                                         !.faults = obs.faults]
       /\ UNCHANGED storeVars

\* The user draws the min slider of subwindow v to a position.
OnMinSliderChanged(v, value) ==
    /\ child[v].open
    /\ value \in SliderPositions(v)
    /\ Return(on_min_slider_changed(Begin("min", v, value, NoFaults),
                                    v, value))

\* The user draws the max slider of subwindow v to a position.
OnMaxSliderChanged(v, value) ==
    /\ child[v].open
    /\ value \in SliderPositions(v)
    /\ Return(on_max_slider_changed(Begin("max", v, value, NoFaults),
                                    v, value))

\* Every position a slider of SliderStacks can take.
AllSliderPositions ==
    UNION {slider_int(SliderStacks[v].gmin, precision(v))
           .. slider_int(SliderStacks[v].gmax, precision(v)) :
           v \in 1..Len(SliderStacks)}

NextSlider ==
    \/ LoadStack
    \/ \E v \in 1..Len(SliderStacks), value \in AllSliderPositions :
          OnMinSliderChanged(v, value)
    \/ \E v \in 1..Len(SliderStacks), value \in AllSliderPositions :
          OnMaxSliderChanged(v, value)
    \/ \E v \in 1..Len(SliderStacks) : ResetDisplayRange(v, NoFaults)
    \/ \E b \in BOOLEAN : SetSyncThisRange(2, b)

\* An integer and a float stack under their range sliders.
SpecSlider == Init /\ [][NextSlider]_vars

\* ------------------------------------------- user actions, update checker

\* should_check_update: 6 hours, in seconds.
CheckInterval == 21600

\* The version of the running program, and the versions a manifest may name.
CurrentVersion == 1
ManifestVersions == {CurrentVersion, CurrentVersion + 1}

\* manifest_data.get('latest_version') when the key is missing or empty.
NoVersion == 0

\* What a fetch of the manifest can give: the fetch fails (URLError), the
\* content is no JSON, or a manifest with or without a latest version, with
\* or without a download URL for it, whose latest version version.parse
\* accepts or not, and whose history entries all carry a version or not.
Manifests ==
    [fetch : {"ok", "url_error", "json_error"},
     latest_version : ManifestVersions \cup {NoVersion},
     download_url : BOOLEAN,
     parses : BOOLEAN,
     history_ok : BOOLEAN]

\* UpdateChecker.should_check_update
should_check_update(st) == (st.now - st.last_update_check) >= CheckInterval

\* UpdateChecker.check_for_updates with the manifest m behind the URL.
\* Returns the settings and what was done: performed (a fetch was made),
\* error (update_available was emitted with an error text), version (the
\* version emitted, NoVersion for none).
check_for_updates(st, m) ==
    LET failed == [st |-> st, performed |-> TRUE, error |-> TRUE,
                   version |-> NoVersion]
        saved  == [st EXCEPT !.last_update_check = st.now]
    IN IF ~should_check_update(st)
       THEN [st |-> st, performed |-> FALSE, error |-> FALSE,
             version |-> NoVersion]
       ELSE IF m.fetch # "ok" THEN failed
       ELSE IF m.latest_version = NoVersion THEN failed
       ELSE IF ~m.download_url THEN failed
       \* line 123: the time is saved before the versions are compared
       ELSE IF ~m.parses THEN [failed EXCEPT !.st = saved]
       ELSE IF m.latest_version > CurrentVersion
       THEN IF ~m.history_ok THEN [failed EXCEPT !.st = saved]
            ELSE [st |-> saved, performed |-> TRUE, error |-> FALSE,
                  version |-> m.latest_version]
       ELSE [st |-> saved, performed |-> TRUE, error |-> FALSE,
             version |-> NoVersion]

\* The program at its first start: no last check in the settings, the clock
\* of the machine far from 0.
InitUpdate ==
    /\ store = [last_update_check |-> 0, now |-> CheckInterval]
    /\ last = [op |-> "none", performed |-> FALSE, error |-> FALSE,
               version |-> NoVersion]
    /\ handler = <<>>
    /\ child = <<>>
    /\ window = NewWindow
    /\ obs = Fresh("none", 0, 0)

\* Three hours pass.
UpdateClock ==
    /\ store.now < CheckInterval + ClockSteps * (CheckInterval \div 2)
    /\ store' = [store EXCEPT !.now = @ + CheckInterval \div 2]
    /\ last' = [last EXCEPT !.op = "clock"]
    /\ UNCHANGED viewerVars

\* MultiViewMainWindow.check_for_updates, at start-up.
UpdateCheck ==
    \E m \in Manifests :
        LET r == check_for_updates(store, m)
        IN /\ store' = r.st
           /\ last' = [op |-> "check", performed |-> r.performed,
                        error |-> r.error, version |-> r.version,
                        manifest |-> m]
           /\ UNCHANGED viewerVars

NextUpdate ==
    \/ UpdateClock
    \/ UpdateCheck

\* The update checker called again and again while time passes.
SpecUpdate == InitUpdate /\ [][NextUpdate]_vars

\* ---------------------------------------------------------------- claims

\* C1: after any sequence of get_slice_pixmap, update_display_range and
\* reset_display_range calls the cache holds at most 10 entries.
C1_CacheAtMostTen == Len(store.cached_slices) <= CacheLimit

\* The open volumetric viewers, other than the origin of the last user
\* action, that take part in slice synchronisation.
SliceSiblings ==
    {v \in Viewers : /\ v # obs.origin
                     /\ child[v].open /\ child[v].is_volumetric
                     /\ child[v].sync_this_slice}

\* C2: for one user frame change on the origin, load_slice of every
\* slice-synced sibling runs exactly once.
C2_SiblingAppliedOnce ==
    (obs.kind = "slice" /\ obs.applied[obs.origin] > 0)
        => \A v \in SliceSiblings : obs.calls[v] = 1

\* C3: for one user frame change the origin's own load_slice runs exactly
\* once, no sibling's notification starts a fan-out, no fan-out runs inside
\* another, and the origin is never entered again from inside a fan-out.
C3_OriginOnceNoReentry ==
    obs.kind = "slice"
        => /\ obs.calls[obs.origin] = 1
           /\ obs.applied[obs.origin] = 1
           /\ \A v \in Viewers \ {obs.origin} : obs.fanout[v] = 0
           /\ obs.maxdepth <= 1
           /\ ~obs.nested

\* A frame change that reached a sibling, whose own notification then met
\* the window's guard.
C3_Witness ==
    /\ obs.kind = "slice"
    /\ \E v \in SliceSiblings : obs.applied[v] >= 1
    /\ obs.fanout[obs.origin] >= 1
    /\ obs.reported = 0

\* C4: when a user change of the slice, the display range or the pan has
\* been handled, whether it returned normally, returned early or was left
\* by an exception, the flag of the origin viewer for that axis and the flag
\* of the main window for that axis are False.
C4_GuardsIdleOnReturn ==
    /\ obs.kind = "slice"
         => /\ ~child[obs.origin].handling_slice_sync
            /\ ~window.handling_slice_sync
    /\ obs.kind = "range"
         => /\ ~child[obs.origin].handling_range_sync
            /\ ~window.handling_range_sync
    /\ obs.kind = "pan"
         => ~window.handlingScrollChangedSignal

\* C5: after a user frame change to idx on the origin, every slice-synced
\* volumetric sibling shows frame min(idx, total_slices - 1).
C5_SiblingClampedIndex ==
    (obs.kind = "slice" /\ obs.applied[obs.origin] > 0)
        => /\ child[obs.origin].current_slice = obs.idx
           /\ \A v \in SliceSiblings :
                child[v].current_slice =
                    IF obs.idx < child[v].total_slices
                    THEN obs.idx ELSE child[v].total_slices - 1

\* The origin went to a frame its shorter sibling does not have.
C5_Witness ==
    /\ obs.kind = "slice"
    /\ \E v \in SliceSiblings :
          /\ obs.idx >= child[v].total_slices
          /\ obs.applied[v] >= 1
          /\ child[v].current_slice = child[v].total_slices - 1

\* C6: with a 5-frame viewer (1) and a 3-frame viewer (2), both slice-synced,
\* moving viewer 1 to frame 4 leaves viewer 2 on frame 2 with its guards and
\* the window's guard idle; a later move of viewer 1 to frame 1 is applied to
\* viewer 2.
C6_ClampThenFollow ==
    (/\ obs.kind = "slice" /\ obs.origin = 1
     /\ child[1].total_slices = 5 /\ child[1].sync_this_slice
     /\ 2 \in SliceSiblings /\ child[2].total_slices = 3)
        => /\ obs.idx = 4
                => /\ child[2].current_slice = 2
                   /\ ~child[2].handling_slice_sync
                   /\ ~child[2].handling_range_sync
                   /\ ~window.handling_slice_sync
           /\ (obs.clamped /\ obs.idx = 1)
                => /\ child[2].current_slice = 1
                   /\ obs.applied[2] >= 1

\* Viewer 2 follows viewer 1 to frame 1 after it had been held on frame 2.
C6_Witness ==
    /\ obs.kind = "slice" /\ obs.origin = 1 /\ obs.idx = 1
    /\ obs.clamped
    /\ child[1].sync_this_slice
    /\ 2 \in SliceSiblings
    /\ child[2].current_slice = 1

\* C7: after an accepted update_display_range or a reset_display_range the
\* cache is empty, every cached raster was computed under the current
\* window, and so is every raster a decode returns.
C7_NoStaleRaster ==
    /\ (last.op = "reset" \/ (last.op = "update" /\ last.ok))
         => store.cached_slices = <<>>
    /\ \A k \in 1..Len(store.cached_slices) :
         store.cached_slices[k][2] =
             <<store.cached_slices[k][1], store.data_range[1],
               store.data_range[2]>>
    /\ (last.op = "decode" /\ last.ok)
         => /\ last.pixmap[2] = store.data_range[1]
            /\ last.pixmap[3] = store.data_range[2]

\* A decode served from a cache that was refilled after the window moved
\* away from the detected one.
C7_Witness ==
    /\ last.op = "decode" /\ last.ok
    /\ store.data_range # store.original_data_range
    /\ Len(store.cached_slices) >= 2
    /\ last.pixmap # store.cached_slices[Len(store.cached_slices)][2]

C8_Step ==
    LET c  == store.cached_slices
        c2 == store'.cached_slices
    IN last'.op = "decode" =>
        IF ~last'.ok
        THEN c2 = c
        ELSE LET i == last'.pixmap[1]
             IN IF i \in CacheKeys(c)
                \* a hit leaves contents and eviction order as they are
                THEN c2 = c
                \* a miss appends the new entry; when the cache was over its
                \* limit exactly the oldest entry went, the rest stayed
                ELSE /\ c2[Len(c2)] = <<i, last'.pixmap>>
                     /\ IF Len(c) > CacheLimit
                        THEN /\ SubSeq(c2, 1, Len(c2) - 1) = Tail(c)
                             /\ last'.evicted = {c[1][1]}
                        ELSE /\ SubSeq(c2, 1, Len(c2) - 1) = c
                             /\ last'.evicted = {}

C9_MinBelowMax == store.data_range[1] < store.data_range[2]

\* Detection ran again on a handler whose forced window differs from the
\* detected range.
C9_Witness ==
    /\ last.op = "analyze"
    /\ store.use_forced_range
    /\ store.data_range # store.original_data_range
    /\ store.original_data_range # <<DefaultMin, DefaultMax>>

\* C10: an update_display_range that returns False leaves the handler as it
\* was: window, forced flag and cache.
C10_RejectedUpdateIsNoop ==
    [][(last'.op = "update" /\ ~last'.ok) => store' = store]_vars

\* C11: after an accepted update_display_range with force=False the window
\* lies within the detected range: original_data_range[0] <= data_range[0]
\* and data_range[1] <= original_data_range[1].
C11_UpdateWithinDetected ==
    (last.op = "update" /\ last.ok /\ ~last.force)
        => /\ store.original_data_range[1] <= store.data_range[1]
           /\ store.data_range[2] <= store.original_data_range[2]

\* C12: reset_display_range, after any updates (forced ones included), makes
\* data_range equal to original_data_range and use_forced_range False, and a
\* second reset changes nothing.
C12_ResetRestoresDetected ==
    [][last'.op = "reset"
         => /\ store'.data_range = store'.original_data_range
            /\ ~store'.use_forced_range
            /\ last.op = "reset" => store' = store]_vars

\* A reset of a window that had been forced away from the detected range.
C12_Witness ==
    /\ last.op = "reset" /\ last.was_forced
    /\ store.data_range = store.original_data_range
    /\ store.data_range # <<DefaultMin, DefaultMax>>

\* C13: an accepted update_display_range with force=True makes the window
\* exactly the supplied values and leaves use_forced_range True, whether
\* min_value, max_value or both are given.
C13_ForcedUpdateExact ==
    (/\ last.op = "update" /\ last.ok /\ last.force
     /\ (last.min_value # None \/ last.max_value # None))
        => /\ store.use_forced_range
           /\ last.min_value # None => store.data_range[1] = last.min_value
           /\ last.max_value # None => store.data_range[2] = last.max_value

\* C14: for every sample kind and every window with detected min <= min <
\* max <= detected max, a decoded frame has 0 where the raw sample is <= min,
\* 255 where it is >= max, and bytes that do not decrease as the raw sample
\* grows.
C14_WindowedNormalisation ==
    (/\ last.op = "decode" /\ last.ok
     /\ store.original_data_range[1] <= store.data_range[1]
     /\ store.data_range[1] < store.data_range[2]
     /\ store.data_range[2] <= store.original_data_range[2])
        => LET raw == store.file.frames[last.pixmap[1] + 1]
               px  == Pixels(store.file, last.pixmap)
           IN \A k \in DOMAIN raw :
                /\ raw[k] <= store.data_range[1] => px[k] = 0
                /\ raw[k] >= store.data_range[2] => px[k] = 255
                /\ \A j \in DOMAIN raw : raw[k] <= raw[j] => px[k] <= px[j]

\* C15: for integer samples and integer window bounds, the byte decoded for
\* a raw value v is (clamp(v, min, max) - min) * 255 / (max - min) rounded to
\* the nearest integer.  (Stated here for the integer kinds that are rescaled.)
C15_RoundedToNearest ==
    (/\ last.op = "decode" /\ last.ok
     /\ store.file.mode \in {"I;16", "I"}
     /\ store.data_range[1] < store.data_range[2])
        => LET raw == store.file.frames[last.pixmap[1] + 1]
               px  == Pixels(store.file, last.pixmap)
           IN \A k \in DOMAIN raw :
                px[k] = rescale_rounded(
                          np_clip(raw[k], store.data_range[1],
                                  store.data_range[2]),
                          store.data_range[1], store.data_range[2])

\* C16: two decodes of the same frame with no change of the window in
\* between return the same raster, whether the second one is served from the
\* cache or decoded again after the entry was evicted.
C16_DecodeRepeats ==
    [][(last'.op = "decode" /\ last'.ok
        /\ last.seen[store'.current_slice] # NoPixmap)
          => last'.pixmap = last.seen[store'.current_slice]]_vars

\* A frame decoded a second time after its cache entry had been evicted.
C16_Witness ==
    /\ last.op = "decode" /\ last.ok /\ last.afresh
    /\ last.pixmap = last.seen[store.current_slice]

\* C17: decoding never divides by zero: under every reachable window every
\* byte of a decoded raster is defined, and a frame whose raw samples are all
\* equal decodes to a raster holding one value.
C17_FlatFrameFlatRaster ==
    (last.op = "decode" /\ last.ok)
        => LET raw == store.file.frames[last.index + 1]
               px  == Pixels(store.file, last.pixmap)
           IN /\ \A k \in DOMAIN px : px[k] \in 0..255
              /\ (\A j, k \in DOMAIN raw : raw[j] = raw[k])
                    => \A j, k \in DOMAIN px : px[j] = px[k]

\* A frame of equal samples of a rescaled kind, decoded under a window that
\* is not the detected one.
C17_Witness ==
    /\ last.op = "decode" /\ last.ok
    /\ store.file.mode # "L"
    /\ store.data_range # store.original_data_range
    /\ LET raw == store.file.frames[last.index + 1]
           px  == Pixels(store.file, last.pixmap)
       IN /\ \A j, k \in DOMAIN raw : raw[j] = raw[k]
          /\ \A k \in DOMAIN px : px[k] = px[1]

\* C18: a raw read leaves the handler as it was (cache, window, forced flag
\* and current index), and what it returns is the frame asked for (the
\* current one when no index is given) as stored in the file, whatever the
\* window is.
C18_RawReadIsPure ==
    [][last'.op = "array"
         => LET i == IF last'.index = None THEN store.current_slice
                     ELSE last'.index
            IN /\ store' = store
               /\ last'.ok = (0 <= i /\ i < store.total_slices)
               /\ last'.ok => /\ last'.pixmap = <<i>>
                              /\ RawSamples(store.file, last'.pixmap)
                                    = store.file.frames[i + 1]
               /\ ~last'.ok => last'.pixmap = NoPixmap]_vars

\* A raw read of a frame whose windowed raster is in the cache, under a
\* window that is not the detected one.
C18_Witness ==
    /\ last.op = "array" /\ last.ok
    /\ last.index \in CacheKeys(store.cached_slices)
    /\ store.data_range # store.original_data_range
    /\ store.use_forced_range
    /\ last.pixmap = <<last.index>>

\* C19: the detected range of an opened stack is the least and the greatest
\* raw sample over all its frames, and the window the stack opens with is
\* that range.
C19_DetectedIsGlobalExtremes ==
    /\ store.original_data_range
          = <<np_min(store.file.frames), np_max(store.file.frames)>>
    /\ last.op = "open" => store.data_range = store.original_data_range

\* C20: opening a file that is unreadable, has more than one sample per
\* pixel or holds a single frame fails: the handler built on it reports no
\* frames, and loading it creates no viewer.
C20_FailedOpenLeavesNothing ==
    (/\ last.op \in {"construct", "load"}
     /\ \/ ~last.container.readable
        \/ last.container.samples # 1
        \/ last.container.pages = 1)
        => /\ store.total_slices = 0
           /\ last.viewer = "none"

\* C21: a decode that fails (index below 0, index past the last frame, or
\* the decoder raising) returns no raster and leaves the handler as it was;
\* a viewer whose load_slice meets the failure keeps its slice index, its
\* raster and its handler, and starts no fan-out.
C21_FailedDecodeChangesNothing ==
    [][/\ (last'.op = "decode" /\ ~last'.ok)
            => /\ store' = store
               /\ last'.pixmap = NoPixmap
       /\ \A v \in Viewers :
            (obs'.kind = "slice" /\ obs'.calls[v] > 0 /\ obs'.applied[v] = 0)
                => /\ child'[v] = child[v]
                   /\ handler'[v] = handler[v]
                   /\ obs'.fanout[v] = 0]_vars

\* The decoder of the origin raised on an uncached frame while its cache
\* held a raster, and a bare handler with a cached raster refused a decode.
C21_Witness ==
    /\ obs.kind = "slice" /\ obs.faulty
    /\ obs.calls[obs.origin] = 1 /\ obs.applied[obs.origin] = 0
    /\ child[obs.origin].current_slice # obs.idx
    /\ Len(handler[obs.origin].cached_slices) >= 1
    /\ last.op = "decode" /\ ~last.ok
    /\ Len(store.cached_slices) >= 1

\* C22: when handing a slice change to one sibling fails, that sibling alone
\* is left out: every other open slice-synced sibling still gets the change
\* (its slice loaded, or its image blanked), and the origin keeps the slice
\* it went to.
C22_OnlyFailingSiblingSkipped ==
    (/\ obs.kind = "slice" /\ obs.faulty
     /\ obs.applied[obs.origin] >= 1
     /\ child[obs.origin].sync_this_slice)
        => /\ child[obs.origin].current_slice = obs.idx
           /\ \E u \in Viewers :
                \A v \in Viewers \ {obs.origin, u} :
                    (child[v].open /\ child[v].sync_this_slice)
                        => (obs.applied[v] >= 1 \/ obs.blanked[v] >= 1)

\* C23: a user change of the slice or of the display range on one viewer
\* never changes the slice index of another viewer whose slice toggle is
\* off, nor the window of another viewer whose range toggle is off, whatever
\* that viewer's other toggle is.
C23_ToggleOffUntouched ==
    [][\A v \in Viewers :
         (obs'.kind \in {"slice", "range"} /\ v # obs'.origin)
            => /\ ~child[v].sync_this_slice
                    => /\ child'[v].current_slice = child[v].current_slice
                       /\ child'[v].pixmap[1] = child[v].pixmap[1]
                       /\ child'[v].black_items = child[v].black_items
               /\ ~child[v].sync_this_range
                    => handler'[v].data_range = handler[v].data_range]_vars

\* A range change went out to the siblings, and a volumetric sibling with its
\* range toggle off and its slice toggle on kept its own window.
C23_Witness ==
    /\ obs.kind = "range" /\ obs.accepted
    /\ obs.range_fanout[obs.origin] >= 1
    /\ \E v \in Viewers \ {obs.origin} :
          /\ child[v].open /\ child[v].is_volumetric
          /\ ~child[v].sync_this_range /\ child[v].sync_this_slice
          /\ handler[v].data_range # handler[obs.origin].data_range
          /\ obs.range_applied[v] = 0

\* The open volumetric viewers, other than the origin of the action being
\* taken, whose range toggle is on before it.
RangeSiblings ==
    {v \in Viewers : /\ v # obs'.origin
                     /\ child[v].open /\ child[v].is_volumetric
                     /\ child[v].sync_this_range}

\* C24: when an accepted range change of the origin has been handed on, every
\* other open volumetric viewer with its range toggle on has the origin's
\* window, the forced flag it had before, a cache without a raster of another
\* window, and shows its current slice decoded under the new window.
C24_RangeReachesSiblings ==
    [][(obs'.kind = "range" /\ obs'.accepted)
         => \A v \in RangeSiblings :
              /\ obs'.range_applied[v] >= 1
              /\ handler'[v].data_range = handler'[obs'.origin].data_range
              /\ handler'[v].use_forced_range = handler[v].use_forced_range
              /\ \A k \in 1..Len(handler'[v].cached_slices) :
                   handler'[v].cached_slices[k][2] =
                       <<handler'[v].cached_slices[k][1],
                         handler'[v].data_range[1],
                         handler'[v].data_range[2]>>
              /\ child'[v].pixmap =
                     <<child'[v].current_slice, handler'[v].data_range[1],
                       handler'[v].data_range[2]>>]_vars

\* A sibling took over a window that is not its detected one and shows its
\* slice under it.
C24_Witness ==
    /\ obs.kind = "range" /\ obs.accepted
    /\ \E v \in Viewers \ {obs.origin} :
          /\ child[v].open /\ child[v].is_volumetric
          /\ child[v].sync_this_range
          /\ obs.range_applied[v] >= 1
          /\ handler[v].data_range = handler[obs.origin].data_range
          /\ handler[v].data_range # handler[v].original_data_range
          /\ child[v].pixmap[2] = handler[v].data_range[1]
          /\ Len(handler[v].cached_slices) >= 1

\* C25: while use_forced_range is True, running the detection again leaves
\* data_range as it is, and the only calls that change data_range are
\* update_display_range and reset_display_range.
C25_ForcedSurvivesDetection ==
    [][store.use_forced_range
         => /\ last'.op = "analyze" => store'.data_range = store.data_range
            /\ store'.data_range # store.data_range
                 => last'.op \in {"update", "reset"}]_vars

\* The detection ran on a handler whose forced window starts below the
\* detected range.
C25_Witness ==
    /\ last.op = "analyze"
    /\ store.use_forced_range
    /\ store.data_range[1] < store.original_data_range[1]
    /\ store.original_data_range = <<store.file.gmin, store.file.gmax>>

\* C26: for every open volumetric viewer, get_info() of its handler reports
\* the slice index the viewer is on and the handler's window.
C26_InfoFollowsViewer ==
    \A v \in Viewers :
        (child[v].open /\ child[v].is_volumetric)
            => /\ get_info(handler[v]).current_slice = child[v].current_slice
               /\ get_info(handler[v]).data_range = handler[v].data_range

\* C27: a user change of the slice, the display range or the pan is handled
\* in a bounded number of load_slice, apply and fan-out steps, no fan-out
\* running inside another of its kind, and when it has been handled every
\* flag of every viewer and of the main window is False.
C27_BoundedThenQuiescent ==
    obs.kind \in {"slice", "range", "pan"}
        => /\ obs.maxdepth <= 1
           /\ \A v \in Viewers :
                /\ obs.calls[v] + obs.blocked[v] <= 2 * Len(StackFrames)
                /\ obs.fanout[v] <= 2 * Len(StackFrames)
                /\ obs.range_applied[v] <= 2
                /\ obs.range_fanout[v] <= 2
                /\ obs.pan_applied[v] <= 1
           /\ \A v \in Viewers : /\ ~child[v].handling_slice_sync
                                 /\ ~child[v].handling_range_sync
           /\ ~window.handling_slice_sync
           /\ ~window.handling_range_sync
           /\ ~window.handlingScrollChangedSignal

\* C28: after a user frame change on a volumetric origin, every open
\* slice-synced sibling without volumetric data has in its scene exactly one
\* black raster, as wide and as high as the image it holds, however many
\* times the change was handed to it.
C28_StaticSiblingBlankedOnce ==
    (obs.kind = "slice" /\ obs.applied[obs.origin] >= 1)
        => \A v \in Viewers \ {obs.origin} :
             (child[v].open /\ ~child[v].is_volumetric
              /\ child[v].sync_this_slice)
                => /\ obs.blanked[v] >= 1
                   /\ child[v].black_items = 1
                   /\ child[v].black_pixmap = black_pixmap(child[v].pixmap)

\* The single image was blanked more than once, by the two fan-outs of one
\* frame change or by two frame changes.
C28_Witness ==
    /\ obs.kind = "slice"
    /\ \E v \in Viewers \ {obs.origin} :
          /\ child[v].open /\ ~child[v].is_volumetric
          /\ child[v].sync_this_slice
          /\ obs.blanked[v] >= 2
          /\ child[v].black_items = 1

\* C29: a user change of the display range (an update or a reset, with the
\* fan-out it starts) leaves the slice index of every viewer, the origin
\* included, as it was.
C29_RangeKeepsSlices ==
    [][obs'.kind = "range"
         => \A v \in Viewers :
              child'[v].current_slice = child[v].current_slice]_vars

C31_NavigationKeepsWindow ==
    [][/\ last'.op = "decode"
            => /\ store'.data_range = store.data_range
               /\ store'.use_forced_range = store.use_forced_range
       /\ obs'.kind = "slice"
            => \A v \in Viewers :
                 /\ handler'[v].data_range = handler[v].data_range
                 /\ handler'[v].use_forced_range
                        = handler[v].use_forced_range]_vars

\* A frame was decoded under a forced window that is not the detected one,
\* and a slice change went from a viewer whose window had been moved to a
\* sibling.
C31_Witness ==
    /\ last.op = "decode" /\ last.ok
    /\ store.use_forced_range
    /\ store.data_range # store.original_data_range
    /\ last.pixmap = <<store.current_slice,
                       store.data_range[1], store.data_range[2]>>
    /\ obs.kind = "slice"
    /\ handler[obs.origin].data_range
           # handler[obs.origin].original_data_range
    /\ \E v \in Viewers \ {obs.origin} : obs.applied[v] > 0

C33_FailedCheckKeepsTime ==
    [][last'.op = "check"
         => /\ last'.performed
                 => store.now - store.last_update_check >= CheckInterval
            /\ store'.last_update_check # store.last_update_check
                 => /\ last'.manifest.fetch = "ok"
                    /\ last'.manifest.latest_version # NoVersion
                    /\ last'.manifest.download_url
            /\ (last'.performed /\ last'.error)
                 => /\ store'.last_update_check = store.last_update_check
                    /\ should_check_update(store')]_vars

====
